---- MODULE Spec2Model ----
(***************************************************************************)
(* Model of the LLM Literature Explorer: the search tool                   *)
(* (llm_literature_search.py: GithubExplorer and main) and the             *)
(* visualization tool (visualize_results.py: ResultsVisualizer and main).  *)
(*                                                                         *)
(* Conventions.  A JSON object is a TLA+ record whose DOMAIN is the set of *)
(* keys that are present.  A JSON value that may be null is an option:     *)
(* None (null) or Some(x).  A Python dict, which iterates in insertion     *)
(* order, is a sequence of <<key, value>> pairs with distinct keys.  A     *)
(* file name is a sequence of one-character strings; a path is a sequence  *)
(* of path components.                                                     *)
(***************************************************************************)
EXTENDS Integers, Sequences, FiniteSets, TLC

VARIABLES
    pc,           \* search tool: position of main / find_llm_literature_projects
    args,         \* search tool: parsed command line (output, analyze)
    i,            \* index of the current query in the fixed query list
    all_results,  \* find_llm_literature_projects: the concatenated items
    issued,       \* HTTP side: indices of the queries requested, in order
    served,       \* HTTP side: items sent in 200 responses that had "items"
    outstanding,  \* HTTP side: requests sent and not yet answered
    status,       \* status code of the last response (0: none yet)
    clock,        \* time spent in time.sleep
    sleeps,       \* number of time.sleep calls made
    results,      \* main: results["items"] returned by find_llm_literature_projects
    analysis,     \* the value returned by analyze_results (None before)
    files,        \* storage of the search tool: file name -> content
    writes,       \* storage of the search tool: file names in order of writing
    items,        \* analyze_results called on its own: its input collection
    vpc,          \* visualization tool: position of main / ResultsVisualizer
    caller,       \* who constructs the ResultsVisualizer: "main" or "direct"
    vargs,        \* visualization tool: analysis, output_dir, report
    HAS_MATPLOTLIB, \* whether the import of matplotlib succeeded
    disk,         \* the file system: normalised path -> kind of entry
    chart,        \* index of the next chart to draw
    error,        \* the exception that was raised ("" when none)
    message       \* the error main printed ("" when none)

vizVars == <<vpc, caller, vargs, HAS_MATPLOTLIB, disk, chart, error, message>>

vars == <<pc, args, i, all_results, issued, served, outstanding, status,
          clock, sleeps, results, analysis, files, writes, items, vizVars>>

\* The visualization tool is not running
VizIdle ==
    /\ vpc = "idle"
    /\ caller = "none"
    /\ vargs = <<>>
    /\ HAS_MATPLOTLIB = FALSE
    /\ disk = <<>>
    /\ chart = 0
    /\ error = ""
    /\ message = ""

\* The search tool is not running
SearchIdle ==
    /\ pc = "idle"
    /\ args = <<>>
    /\ i = 0
    /\ all_results = <<>>
    /\ issued = <<>>
    /\ served = <<>>
    /\ outstanding = 0
    /\ status = 0
    /\ clock = 0
    /\ sleeps = 0
    /\ results = <<>>
    /\ analysis = <<>>
    /\ files = <<>>
    /\ writes = <<>>
    /\ items = <<>>

----------------------------------------------------------------------------
(* Bounds of the model *)

MaxId == 2
PerPage == 2
MaxResults == 3
MaxRepos == 3

----------------------------------------------------------------------------
(* Options, dicts and generic helpers *)

None == <<>>
Some(x) == <<x>>

SeqsUpTo(S, n) == UNION {[1..k -> S] : k \in 0..n}

Has(obj, key) == key \in DOMAIN obj

\* dict.get(key, default)
Get(obj, key, default) == IF key \in DOMAIN obj THEN obj[key] ELSE default

DictKeys(d) == {d[k][1] : k \in 1..Len(d)}

DictIndex(d, key) == CHOOSE k \in 1..Len(d) : d[k][1] = key

\* d.get(key, default) on an insertion-ordered dict
DictGet(d, key, default) ==
    IF key \in DictKeys(d) THEN d[DictIndex(d, key)][2] ELSE default

\* d[key] = value: an existing key keeps its position, a new key goes last
DictSet(d, key, value) ==
    IF key \in DictKeys(d)
    THEN [d EXCEPT ![DictIndex(d, key)] = <<key, value>>]
    ELSE Append(d, <<key, value>>)

DictValues(d) == [k \in 1..Len(d) |-> d[k][2]]

RECURSIVE SumSeq(_)
SumSeq(s) == IF s = <<>> THEN 0 ELSE s[1] + SumSeq(Tail(s))

----------------------------------------------------------------------------
(* Repository records as the search API returns them *)

\* created_at is kept as the four year digits of "%Y-%m-%dT%H:%M:%SZ"
Y2020 == <<2, 0, 2, 0>>
Y2023 == <<2, 0, 2, 3>>

\* Two snapshots of the same repository: the star count (and the language)
\* changed between two calls.
RepoOld(id) ==
    [id |-> id, language |-> Some("Python"), topics |-> Some(<<"nlp">>),
     created_at |-> Some(Y2020), stargazers_count |-> 5]

RepoNew(id) ==
    [id |-> id, language |-> None, topics |-> Some(<<"llm", "nlp">>),
     created_at |-> Some(Y2020), stargazers_count |-> 2000]

\* A record whose "topics" is null: save_results copies it, analyze_results
\* raises on it
RepoNullTopics == [RepoOld(1) EXCEPT !.topics = None]

ApiRepos ==
    {RepoOld(id) : id \in 1..MaxId} \cup {RepoNew(id) : id \in 1..MaxId}
        \cup {RepoNullTopics}


----------------------------------------------------------------------------
(* The search API: one response per request *)

HTTP_OK == 200

\* The status codes of the failures the service answers with (rate limit)
ERROR_STATUSES == {403}

\* The body of a response as response.json() gives it: None when the JSON
\* object has no "items" key, Some(list) when it has one.
Bodies == {None} \cup {Some(l) : l \in SeqsUpTo(ApiRepos, PerPage)}

Responses == [status_code : {HTTP_OK} \cup ERROR_STATUSES, body : Bodies]

BodyItems(body) == IF body = None THEN <<>> ELSE body[1]

\* What the service sent as the result of a query: the items of a 200
\* response, nothing for any other status.
Delivered(response) ==
    IF response.status_code = HTTP_OK THEN BodyItems(response.body) ELSE <<>>

----------------------------------------------------------------------------
(* GithubExplorer.search_repositories and find_llm_literature_projects *)

queries ==
    << "language models literature",
       "llm literature analysis",
       "gpt literary analysis",
       "natural language processing literature",
       "computational literary analysis",
       "llm poetry generation",
       "transformer models literature",
       "literary text generation",
       "nlp literary criticism",
       "ai storytelling" >>

SLEEP_SECONDS == 2

\* A mutation of search_repositories: the status code is not looked at.
search_repositories_unchecked(response) == response.body

\* search_repositories: the dict it returns, as the option of its "items"
search_repositories(response) ==
    IF response.status_code # HTTP_OK
    THEN Some(<<>>)
    ELSE response.body

\* A mutation of the deduplication: every record overwrites the entry of its id.
RECURSIVE unique_repos_last(_, _)
unique_repos_last(repos, unique) ==
    IF repos = <<>> THEN unique
    ELSE unique_repos_last(Tail(repos), DictSet(unique, repos[1].id, repos[1]))

\* The loop over all_results that fills unique_repos (id -> repo)
RECURSIVE unique_repos(_, _)
unique_repos(repos, unique) ==
    IF repos = <<>> THEN unique
    ELSE unique_repos(Tail(repos),
                      IF repos[1].id \notin DictKeys(unique)
                      THEN DictSet(unique, repos[1].id, repos[1])
                      ELSE unique)

\* list(unique_repos.values())
Deduplicate(repos) == DictValues(unique_repos(repos, <<>>))

----------------------------------------------------------------------------
(* GithubExplorer.analyze_results *)

\* Python truthiness of repo.get("language"): None and "" are false
Truthy(opt) == opt # None /\ opt[1] # ""

\* datetime.strptime(created_at, "%Y-%m-%dT%H:%M:%SZ").year, from the four
\* year digits
StrptimeYear(digits) ==
    1000 * digits[1] + 100 * digits[2] + 10 * digits[3] + digits[4]

\* str(year): the decimal digits, without leading zeros
RECURSIVE IntToStr(_)
IntToStr(n) == IF n < 10 THEN <<n>> ELSE Append(IntToStr(n \div 10), n % 10)

\* a < b on strings of digits: Python compares strings character by character
RECURSIVE StrLess(_, _)
StrLess(a, b) ==
    IF a = <<>> THEN b # <<>>
    ELSE IF b = <<>> THEN FALSE
    ELSE IF a[1] # b[1] THEN a[1] < b[1]
    ELSE StrLess(Tail(a), Tail(b))

\* A mutation of the bucket classification: open upper bounds.
StarsBucketOpen(stars) ==
    IF stars < 10 THEN "0-10"
    ELSE IF stars < 50 THEN "11-50"
    ELSE IF stars < 100 THEN "51-100"
    ELSE IF stars < 500 THEN "101-500"
    ELSE IF stars < 1000 THEN "501-1000"
    ELSE "1001+"

\* The if/elif chain over the star count
StarsBucket(stars) ==
    IF stars <= 10 THEN "0-10"
    ELSE IF stars <= 50 THEN "11-50"
    ELSE IF stars <= 100 THEN "51-100"
    ELSE IF stars <= 500 THEN "101-500"
    ELSE IF stars <= 1000 THEN "501-1000"
    ELSE "1001+"

BucketKeys == <<"0-10", "11-50", "51-100", "101-500", "501-1000", "1001+">>

\* The analysis dict as it is initialised
EmptyAnalysis(n) ==
    [total_count |-> n,
     languages |-> <<>>,
     topics |-> <<>>,
     created_dates |-> <<>>,
     stars_distribution |-> [k \in 1..Len(BucketKeys) |-> <<BucketKeys[k], 0>>]]

\* d[key] = d.get(key, 0) + 1
Increment(d, key) == DictSet(d, key, DictGet(d, key, 0) + 1)

RECURSIVE CountTopics(_, _)
CountTopics(d, topics) ==
    IF topics = <<>> THEN d
    ELSE CountTopics(Increment(d, topics[1]), Tail(topics))

\* Iterating over topics raises TypeError when the value is null, and so does
\* strptime when "created_at" is present and null.
RepoRaises(repo) ==
    \/ Get(repo, "topics", Some(<<>>)) = None
    \/ (Has(repo, "created_at") /\ repo.created_at = None)

\* A mutation of the loop body: a record with no star is not put in a bucket.
AnalyzeRepoSkipZero(a, repo) ==
    LET language == Get(repo, "language", None)
        topics   == Get(repo, "topics", Some(<<>>))
        stars    == Get(repo, "stargazers_count", 0)
        a1 == IF Truthy(language)
              THEN [a EXCEPT !.languages = Increment(@, language[1])]
              ELSE a
        a2 == [a1 EXCEPT !.topics = CountTopics(@, topics[1])]
        a3 == IF Has(repo, "created_at")
              THEN [a2 EXCEPT !.created_dates =
                        Increment(@, IntToStr(StrptimeYear(repo.created_at[1])))]
              ELSE a2
    IN  IF stars = 0 THEN a3
        ELSE [a3 EXCEPT !.stars_distribution = Increment(@, StarsBucket(stars))]

\* One iteration of the loop over results["items"]
AnalyzeRepo(a, repo) ==
    LET language == Get(repo, "language", None)
        topics   == Get(repo, "topics", Some(<<>>))
        stars    == Get(repo, "stargazers_count", 0)
        a1 == IF Truthy(language)
              THEN [a EXCEPT !.languages = Increment(@, language[1])]
              ELSE a
        a2 == [a1 EXCEPT !.topics = CountTopics(@, topics[1])]
        a3 == IF Has(repo, "created_at")
              THEN [a2 EXCEPT !.created_dates =
                        Increment(@, IntToStr(StrptimeYear(repo.created_at[1])))]
              ELSE a2
    IN  [a3 EXCEPT !.stars_distribution = Increment(@, StarsBucket(stars))]

RECURSIVE AnalyzeLoop(_, _)
AnalyzeLoop(a, repos) ==
    IF repos = <<>> THEN a
    ELSE AnalyzeLoop(AnalyzeRepo(a, repos[1]), Tail(repos))

\* A mutation of the insertion: e goes in front of the entries of its own
\* count, so entries of equal count come out in reverse insertion order.
RECURSIVE InsertByCountDescUnstable(_, _)
InsertByCountDescUnstable(sorted, e) ==
    IF sorted = <<>> THEN <<e>>
    ELSE IF sorted[1][2] > e[2]
         THEN <<sorted[1]>> \o InsertByCountDescUnstable(Tail(sorted), e)
         ELSE <<e>> \o sorted

\* Insert entry e behind every entry whose count is at least e's: the stable
\* descending order of sorted(..., key=lambda x: x[1], reverse=True)
RECURSIVE InsertByCountDesc(_, _)
InsertByCountDesc(sorted, e) ==
    IF sorted = <<>> THEN <<e>>
    ELSE IF sorted[1][2] >= e[2]
         THEN <<sorted[1]>> \o InsertByCountDesc(Tail(sorted), e)
         ELSE <<e>> \o sorted

\* A mutation of the sort by frequency: the dict is left in insertion order.
SortedByCountDescNone(d) == d

RECURSIVE SortedByCountDesc(_)
SortedByCountDesc(d) ==
    IF d = <<>> THEN <<>>
    ELSE InsertByCountDesc(SortedByCountDesc(SubSeq(d, 1, Len(d) - 1)), d[Len(d)])

RECURSIVE InsertByKeyAsc(_, _)
InsertByKeyAsc(sorted, e) ==
    IF sorted = <<>> THEN <<e>>
    ELSE IF StrLess(e[1], sorted[1][1])
         THEN <<e>> \o sorted
         ELSE <<sorted[1]>> \o InsertByKeyAsc(Tail(sorted), e)

\* sorted(d.items()): by key, the keys being distinct strings
RECURSIVE SortedByKey(_)
SortedByKey(d) ==
    IF d = <<>> THEN <<>>
    ELSE InsertByKeyAsc(SortedByKey(SubSeq(d, 1, Len(d) - 1)), d[Len(d)])

\* The value of a call that raised instead of returning
Raised == [error |-> "TypeError"]

HasRaised(a) == "error" \in DOMAIN a

\* analyze_results(results), on results["items"]
analyze_results(repos) ==
    IF \E k \in 1..Len(repos) : RepoRaises(repos[k])
    THEN Raised
    ELSE LET a == AnalyzeLoop(EmptyAnalysis(Len(repos)), repos)
         IN  [a EXCEPT !.languages = SortedByCountDesc(@),
                       !.topics = SortedByCountDesc(@),
                       !.created_dates = SortedByKey(@)]

----------------------------------------------------------------------------
(* File names and storage of the search tool *)

\* "llm_literature_repos.json", the default of --output
OUTPUT_DEFAULT ==
    <<"l", "l", "m", "_", "l", "i", "t", "e", "r", "a", "t", "u", "r", "e", "_", "r", "e", "p", "o", "s",
    ".", "j", "s", "o", "n">>

\* "out.txt"
OUTPUT_TXT == <<"o", "u", "t", ".", "t", "x", "t">>

OutputNames == {OUTPUT_DEFAULT, OUTPUT_TXT}

DOT_JSON == <<".", "j", "s", "o", "n">>
ANALYSIS_DOT_JSON == <<"_", "a", "n", "a", "l", "y", "s", "i", "s", ".", "j", "s", "o", "n">>

\* str.replace(old, new): every occurrence of old, left to right, not overlapping
RECURSIVE Replace(_, _, _)
Replace(s, old, new) ==
    IF Len(s) < Len(old) THEN s
    ELSE IF SubSeq(s, 1, Len(old)) = old
         THEN new \o Replace(SubSeq(s, Len(old) + 1, Len(s)), old, new)
         ELSE <<s[1]>> \o Replace(Tail(s), old, new)

\* args.output.replace(".json", "_analysis.json")
AnalysisFile(output) == Replace(output, DOT_JSON, ANALYSIS_DOT_JSON)

\* open(name, 'w') and json.dump: the file is created or overwritten
WriteFile(fs, name, content) == (name :> content) @@ fs

\* The reduced record save_results writes (of the fields that are modelled)
SimplifiedRepo(repo) ==
    [id |-> repo.id,
     created_at |-> repo.created_at,
     language |-> Get(repo, "language", None),
     stargazers_count |-> repo.stargazers_count,
     topics |-> Get(repo, "topics", Some(<<>>))]

SimplifiedResults(repos) == [k \in 1..Len(repos) |-> SimplifiedRepo(repos[k])]

----------------------------------------------------------------------------
(* The search tool: main and find_llm_literature_projects, step by step *)

Init ==
    /\ pc = "request"
    /\ args \in [output : OutputNames, analyze : BOOLEAN]
    /\ i = 1
    /\ all_results = <<>>
    /\ issued = <<>>
    /\ served = <<>>
    /\ outstanding = 0
    /\ status = 0
    /\ clock = 0
    /\ sleeps = 0
    /\ results = <<>>
    /\ analysis = None
    /\ files = <<>>
    /\ writes = <<>>
    /\ items = <<>>
    /\ VizIdle

\* requests.get is called for queries[i]
SendRequest ==
    /\ pc = "request"
    /\ issued' = Append(issued, i)
    /\ outstanding' = outstanding + 1
    /\ pc' = "await"
    /\ UNCHANGED <<args, i, all_results, served, status, clock, sleeps,
                   results, analysis, files, writes, items>>
    /\ UNCHANGED vizVars

\* The response arrives, search_repositories returns and the loop body
\* extends all_results when the returned dict has "items"
ReceiveResponse ==
    /\ pc = "await"
    /\ \E response \in Responses :
          /\ Len(all_results) + Len(BodyItems(response.body)) <= MaxResults
          /\ LET returned == search_repositories(response)
             IN  all_results' = IF returned # None
                                THEN all_results \o returned[1]
                                ELSE all_results
          /\ served' = served \o Delivered(response)
          /\ status' = response.status_code
    /\ outstanding' = outstanding - 1
    /\ pc' = "sleep"
    /\ UNCHANGED <<args, i, issued, clock, sleeps, results, analysis, files,
                   writes, items>>
    /\ UNCHANGED vizVars

\* A mutation of the delay: no sleep after a query that failed.
SleepOnSuccessOnly ==
    /\ pc = "sleep"
    /\ clock' = IF status = HTTP_OK THEN clock + SLEEP_SECONDS ELSE clock
    /\ sleeps' = IF status = HTTP_OK THEN sleeps + 1 ELSE sleeps
    /\ IF i < Len(queries)
       THEN i' = i + 1 /\ pc' = "request"
       ELSE i' = i /\ pc' = "dedup"
    /\ UNCHANGED <<args, all_results, issued, served, outstanding, status,
                   results, analysis, files, writes, items>>
    /\ UNCHANGED vizVars

\* time.sleep(2) at the end of the loop body, then the next query or the
\* end of the loop
Sleep ==
    /\ pc = "sleep"
    /\ clock' = clock + SLEEP_SECONDS
    /\ sleeps' = sleeps + 1
    /\ IF i < Len(queries)
       THEN i' = i + 1 /\ pc' = "request"
       ELSE i' = i /\ pc' = "dedup"
    /\ UNCHANGED <<args, all_results, issued, served, outstanding, status,
                   results, analysis, files, writes, items>>
    /\ UNCHANGED vizVars

\* The duplicates are removed and find_llm_literature_projects returns
RemoveDuplicates ==
    /\ pc = "dedup"
    /\ results' = Deduplicate(all_results)
    /\ pc' = "save"
    /\ UNCHANGED <<args, i, all_results, issued, served, outstanding, status,
                   clock, sleeps, analysis, files, writes, items>>
    /\ UNCHANGED vizVars

\* A mutation of main: the record collection is not written before the
\* analysis.
SaveResultsSkipped ==
    /\ pc = "save"
    /\ pc' = IF args.analyze THEN "analyze" ELSE "done"
    /\ UNCHANGED <<args, i, all_results, issued, served, outstanding, status,
                   clock, sleeps, results, analysis, files, writes, items>>
    /\ UNCHANGED vizVars

\* explorer.save_results(results, args.output)
SaveResults ==
    /\ pc = "save"
    /\ files' = WriteFile(files, args.output,
                          [kind |-> "repos", data |-> SimplifiedResults(results)])
    /\ writes' = Append(writes, args.output)
    /\ pc' = IF args.analyze THEN "analyze" ELSE "done"
    /\ UNCHANGED <<args, i, all_results, issued, served, outstanding, status,
                   clock, sleeps, results, analysis, items>>
    /\ UNCHANGED vizVars

\* analysis = explorer.analyze_results(results); an exception ends the run
AnalyzeResults ==
    /\ pc = "analyze"
    /\ analysis' = analyze_results(results)
    /\ pc' = IF HasRaised(analysis') THEN "crashed" ELSE "write_analysis"
    /\ UNCHANGED <<args, i, all_results, issued, served, outstanding, status,
                   clock, sleeps, results, files, writes, items>>
    /\ UNCHANGED vizVars

\* The analysis is written to analysis_file
WriteAnalysis ==
    /\ pc = "write_analysis"
    /\ files' = WriteFile(files, AnalysisFile(args.output),
                          [kind |-> "analysis", data |-> analysis])
    /\ writes' = Append(writes, AnalysisFile(args.output))
    /\ pc' = "done"
    /\ UNCHANGED <<args, i, all_results, issued, served, outstanding, status,
                   clock, sleeps, results, analysis, items>>
    /\ UNCHANGED vizVars

Next ==
    \/ SendRequest
    \/ ReceiveResponse
    \/ Sleep
    \/ RemoveDuplicates
    \/ SaveResults
    \/ AnalyzeResults
    \/ WriteAnalysis

Spec == Init /\ [][Next]_vars

----------------------------------------------------------------------------
(* analyze_results called on a collection of its own *)

Y0999 == <<0, 9, 9, 9>>

\* The record obj without the key: the field is absent
Without(obj, key) == [k \in DOMAIN obj \ {key} |-> obj[k]]

BaseRepo == RepoOld(1)

\* A record that differs from BaseRepo in every field the analysis reads
OtherRepo ==
    [id |-> 2, language |-> Some("Rust"), topics |-> Some(<<"llm", "nlp">>),
     created_at |-> Some(Y2023), stargazers_count |-> 2000]

\* A record whose language and first topic occur in no other record
ThirdRepo ==
    [id |-> 3, language |-> Some("Go"), topics |-> Some(<<"rag", "llm">>),
     created_at |-> Some(Y2023), stargazers_count |-> 5]

StarCounts == {0, 10, 11, 50, 51, 100, 101, 500, 501, 1000, 1001, 2000}

\* BaseRepo, OtherRepo, ThirdRepo, and the records that differ from BaseRepo
\* in one field: another value, null, or the field absent
AnalyzeRepos ==
    {BaseRepo, OtherRepo, ThirdRepo}
    \cup {[BaseRepo EXCEPT !.stargazers_count = n] : n \in StarCounts}
    \cup {Without(BaseRepo, "stargazers_count")}
    \cup {[BaseRepo EXCEPT !.language = l] : l \in {None, Some("Rust")}}
    \cup {Without(BaseRepo, "language")}
    \cup {[BaseRepo EXCEPT !.topics = t] :
             t \in {None, Some(<<>>), Some(<<"llm", "nlp">>)}}
    \cup {Without(BaseRepo, "topics")}
    \cup {[BaseRepo EXCEPT !.created_at = c] : c \in {None, Some(Y0999), Some(Y2023)}}
    \cup {Without(BaseRepo, "created_at")}

InitAnalyze ==
    /\ pc = "call"
    /\ items \in SeqsUpTo(AnalyzeRepos, MaxRepos)
    /\ args = [output |-> OUTPUT_DEFAULT, analyze |-> TRUE]
    /\ i = 1
    /\ all_results = <<>>
    /\ issued = <<>>
    /\ served = <<>>
    /\ outstanding = 0
    /\ status = 0
    /\ clock = 0
    /\ sleeps = 0
    /\ results = <<>>
    /\ analysis = None
    /\ files = <<>>
    /\ writes = <<>>
    /\ VizIdle

\* explorer.analyze_results({"items": items}) returns or raises
CallAnalyze ==
    /\ pc = "call"
    /\ analysis' = analyze_results(items)
    /\ pc' = IF HasRaised(analysis') THEN "raised" ELSE "returned"
    /\ UNCHANGED <<args, i, all_results, issued, served, outstanding, status,
                   clock, sleeps, results, files, writes, items>>
    /\ UNCHANGED vizVars

NextAnalyze == CallAnalyze

SpecAnalyze == InitAnalyze /\ [][NextAnalyze]_vars

----------------------------------------------------------------------------
(* Claims about find_llm_literature_projects *)

InLoop == pc \in {"request", "await", "sleep"}

AfterLoop == pc \in {"dedup", "save", "analyze", "write_analysis", "done", "crashed"}

AfterDedup == pc \in {"save", "analyze", "write_analysis", "done", "crashed"}

IdsOf(repos) == {repos[k].id : k \in 1..Len(repos)}

\* The position of the first record with this id
FirstIndex(repos, id) ==
    CHOOSE k \in 1..Len(repos) :
        repos[k].id = id /\ \A j \in 1..(k - 1) : repos[j].id # id

\* C1: the collection returned by find_llm_literature_projects holds exactly
\* one record per distinct id of the concatenated list, that record is the
\* first one with the id in input order, the records are in the order of
\* their first occurrence, and an empty list gives an empty collection.
C1_DedupFirstWins ==
    AfterDedup =>
        /\ IdsOf(results) = IdsOf(all_results)
        /\ \A k, j \in 1..Len(results) : results[k].id = results[j].id => k = j
        /\ \A k \in 1..Len(results) :
              results[k] = all_results[FirstIndex(all_results, results[k].id)]
        /\ \A k, j \in 1..Len(results) :
              k < j => FirstIndex(all_results, results[k].id)
                          < FirstIndex(all_results, results[j].id)
        /\ (all_results = <<>> => results = <<>>)

\* C1 witness: a later record repeats the first record's id with other field
\* values, a record of another id lies between them, and two records remain.
C1_Witness ==
    /\ AfterDedup
    /\ Len(all_results) = 3
    /\ all_results[1].id = all_results[3].id
    /\ all_results[1] # all_results[3]
    /\ all_results[2].id # all_results[1].id
    /\ results = <<all_results[1], all_results[2]>>

\* C6: all ten queries are issued in list order whatever the status of the
\* earlier responses, a response with a non-200 status adds no record, and
\* the list before deduplication is the concatenation, in query order, of
\* the item lists of the 200 responses.
C6_FailSoft ==
    /\ issued = [k \in 1..Len(issued) |-> k]
    /\ Len(issued) = IF pc = "request" THEN i - 1 ELSE i
    /\ AfterLoop => Len(issued) = Len(queries)
    /\ all_results = served

\* C6 witness: the ninth query failed after records had been collected, and
\* the tenth query has been issued all the same.
C6_Witness ==
    /\ pc = "await"
    /\ i = Len(queries)
    /\ status \in ERROR_STATUSES
    /\ Len(all_results) >= 2

\* C10 as stated: no request is issued while another is outstanding, one
\* 2-unit sleep lies between a query and the next whatever the status, and
\* the sleeps occur between queries only: nine sleeps for ten queries.
C10_SleepsBetweenQueries ==
    /\ outstanding <= 1
    /\ pc = "request" => outstanding = 0
    /\ InLoop => (sleeps = i - 1 /\ clock = 2 * (i - 1))
    /\ AfterLoop => (sleeps = Len(queries) - 1 /\ clock = 2 * (Len(queries) - 1))

\* C10 amended: no request is issued while another is outstanding, and every
\* query, the last one included and whatever its status, is followed by
\* exactly one 2-unit sleep: ten sleeps for ten queries, nine of them between
\* queries and one after the last.
C10_SleepAfterEveryQuery ==
    /\ outstanding <= 1
    /\ pc = "request" => outstanding = 0
    /\ InLoop => (sleeps = i - 1 /\ clock = 2 * (i - 1))
    /\ AfterLoop => (sleeps = Len(queries) /\ clock = 2 * Len(queries))

\* C10 witness: the last query failed, the loop has ended, and it was
\* followed by the tenth sleep.
C10_Witness ==
    /\ pc = "dedup"
    /\ status \in ERROR_STATUSES
    /\ sleeps = Len(queries)
    /\ clock = 20

----------------------------------------------------------------------------
(* Claims about the output files of the search tool *)

\* The position of the last "." of a file name, 0 when it has none
LastDot(name) ==
    IF \E k \in 1..Len(name) : name[k] = "."
    THEN CHOOSE k \in 1..Len(name) :
            name[k] = "." /\ \A j \in (k + 1)..Len(name) : name[j] # "."
    ELSE 0

ANALYSIS_SUFFIX == <<"_", "a", "n", "a", "l", "y", "s", "i", "s">>

\* The name with "_analysis" inserted once, immediately before its extension
SuffixBeforeExtension(name) ==
    IF LastDot(name) = 0 THEN name \o ANALYSIS_SUFFIX
    ELSE SubSeq(name, 1, LastDot(name) - 1) \o ANALYSIS_SUFFIX
            \o SubSeq(name, LastDot(name), Len(name))

\* C7: with --analyze, for every --output name, the statistics go to the
\* name with "_analysis" inserted once before the extension, which differs
\* from the collection's name, and the record collection is not overwritten.
C7_SeparateOutputs ==
    (pc = "done" /\ args.analyze) =>
        /\ AnalysisFile(args.output) = SuffixBeforeExtension(args.output)
        /\ AnalysisFile(args.output) # args.output
        /\ DOMAIN files = {args.output, AnalysisFile(args.output)}
        /\ files[args.output].kind = "repos"
        /\ files[AnalysisFile(args.output)].kind = "analysis"

\* The statistics have been computed: analyze_results has returned
Computed == analysis # None /\ ~HasRaised(analysis)

\* What save_results leaves in the output file
CollectionFile == [kind |-> "repos", data |-> SimplifiedResults(results)]

\* C12 as stated: in a run with --analyze no file is written before the
\* statistics have been computed, and a run whose analysis raised has left
\* no file.
C12_NoFileBeforeAnalysis ==
    args.analyze =>
        /\ (writes # <<>> => Computed)
        /\ (pc = "crashed" => files = <<>>)

\* C12 amended: the stages run in the order queries, deduplication, writing
\* of the record collection, analysis, writing of the statistics. Nothing
\* is written before the deduplication; the collection is in the output file
\* before analyze_results is called; the statistics are written only once
\* they have been computed; a run whose analysis raised leaves the output
\* file with the collection and has written no statistics.
C12_SaveThenAnalyze ==
    /\ (InLoop \/ pc = "dedup") => results = <<>>
    /\ (InLoop \/ pc \in {"dedup", "save"}) =>
          writes = <<>> /\ files = <<>> /\ analysis = None
    /\ AfterDedup => results = Deduplicate(all_results)
    /\ pc = "analyze" =>
          /\ args.analyze
          /\ analysis = None
          /\ writes = <<args.output>>
          /\ files = (args.output :> CollectionFile)
    /\ pc = "write_analysis" =>
          /\ Computed
          /\ analysis = analyze_results(results)
          /\ writes = <<args.output>>
    /\ pc = "crashed" =>
          /\ args.analyze
          /\ HasRaised(analysis)
          /\ writes = <<args.output>>
          /\ files = (args.output :> CollectionFile)
    /\ pc = "done" =>
          IF args.analyze
          THEN /\ Computed
               /\ writes = <<args.output, AnalysisFile(args.output)>>
               /\ files[AnalysisFile(args.output)]
                     = [kind |-> "analysis", data |-> analyze_results(results)]
          ELSE /\ analysis = None
               /\ writes = <<args.output>>
               /\ files = (args.output :> CollectionFile)

\* C12 witness: the analysis raised on a collection of two records, and the
\* output file holds the two records.
C12_Witness ==
    /\ pc = "crashed"
    /\ Len(results) = 2
    /\ results[2] = RepoNullTopics
    /\ DOMAIN files = {args.output}
    /\ files[args.output].kind = "repos"
    /\ Len(files[args.output].data) = 2

----------------------------------------------------------------------------
(* Claims about analyze_results *)

\* The star count analyze_results reads from a record
StarsOf(repo) == IF "stargazers_count" \in DOMAIN repo THEN repo.stargazers_count ELSE 0

\* The number of records of the input that satisfy P
CountItems(P(_)) == Cardinality({k \in 1..Len(items) : P(items[k])})

BucketCount(key) == DictGet(analysis.stars_distribution, key, -1)

\* C2: for every collection with star counts >= 0 the result holds the six
\* bucket keys, also those that count zero and also for an empty collection,
\* and the six counts sum to total_count, the number of records.
C2_BucketsComplete ==
    pc = "returned" =>
        /\ [k \in 1..Len(analysis.stars_distribution) |->
                analysis.stars_distribution[k][1]] = BucketKeys
        /\ \A k \in 1..Len(analysis.stars_distribution) :
                analysis.stars_distribution[k][2] >= 0
        /\ analysis.total_count = Len(items)
        /\ SumSeq(DictValues(analysis.stars_distribution)) = analysis.total_count

\* C2 witness: three records, one of them with no star, fill two buckets and
\* leave four at zero.
C2_Witness ==
    /\ pc = "returned"
    /\ Len(items) = 3
    /\ \E k \in 1..3 : StarsOf(items[k]) = 0
    /\ BucketCount("0-10") = 2
    /\ BucketCount("1001+") = 1
    /\ BucketCount("11-50") = 0

\* C3: a record with star count s is counted in "0-10" iff s <= 10, in
\* "11-50" iff 11 <= s <= 50, in "51-100" iff 51 <= s <= 100, in "101-500"
\* iff 101 <= s <= 500, in "501-1000" iff 501 <= s <= 1000 and in "1001+"
\* iff s >= 1001; star counts 5, 50, 2000 give one record in each of "0-10",
\* "11-50", "1001+", none elsewhere, and total_count 3.
C3_BucketBoundaries ==
    pc = "returned" =>
        /\ BucketCount("0-10") = CountItems(LAMBDA r : StarsOf(r) <= 10)
        /\ BucketCount("11-50") =
              CountItems(LAMBDA r : 11 <= StarsOf(r) /\ StarsOf(r) <= 50)
        /\ BucketCount("51-100") =
              CountItems(LAMBDA r : 51 <= StarsOf(r) /\ StarsOf(r) <= 100)
        /\ BucketCount("101-500") =
              CountItems(LAMBDA r : 101 <= StarsOf(r) /\ StarsOf(r) <= 500)
        /\ BucketCount("501-1000") =
              CountItems(LAMBDA r : 501 <= StarsOf(r) /\ StarsOf(r) <= 1000)
        /\ BucketCount("1001+") = CountItems(LAMBDA r : StarsOf(r) >= 1001)
        /\ ([k \in 1..Len(items) |-> StarsOf(items[k])] = <<5, 50, 2000>> =>
              /\ analysis.stars_distribution =
                    << <<"0-10", 1>>, <<"11-50", 1>>, <<"51-100", 0>>,
                       <<"101-500", 0>>, <<"501-1000", 0>>, <<"1001+", 1>> >>
              /\ analysis.total_count = 3)

\* C3 witness: the collection with star counts 5, 50, 2000 has been analysed.
C3_Witness ==
    /\ pc = "returned"
    /\ [k \in 1..Len(items) |-> StarsOf(items[k])] = <<5, 50, 2000>>
    /\ BucketCount("11-50") = 1

\* The counts of a mapping do not increase along its iteration order
NonIncreasing(d) == \A k \in 1..(Len(d) - 1) : d[k][2] >= d[k + 1][2]

\* int(key) of a string of digits
RECURSIVE StrToInt(_)
StrToInt(digits) ==
    IF digits = <<>> THEN 0
    ELSE 10 * StrToInt(SubSeq(digits, 1, Len(digits) - 1)) + digits[Len(digits)]

YearsAscending(d) ==
    \A k \in 1..(Len(d) - 1) : StrToInt(d[k][1]) < StrToInt(d[k + 1][1])

KeysAscending(d) == \A k \in 1..(Len(d) - 1) : StrLess(d[k][1], d[k + 1][1])

\* The creation year of every record that has one is of four digits
FourDigitYears ==
    \A k \in 1..Len(items) :
        ("created_at" \in DOMAIN items[k] /\ items[k].created_at # None)
            => StrptimeYear(items[k].created_at[1]) >= 1000

\* C4 as stated: for every input collection the counts of languages and of
\* topics do not increase along the mapping, and the keys of created_dates
\* are in ascending order of the year.
C4_SortOrders ==
    pc = "returned" =>
        /\ NonIncreasing(analysis.languages)
        /\ NonIncreasing(analysis.topics)
        /\ YearsAscending(analysis.created_dates)

\* C4 amended: the counts of languages and of topics do not increase along
\* the mapping, and the keys of created_dates are in ascending order as
\* strings, which is the ascending order of the years when every creation
\* year is of four digits (1000 or later).
C4_SortOrdersOfStrings ==
    pc = "returned" =>
        /\ NonIncreasing(analysis.languages)
        /\ NonIncreasing(analysis.topics)
        /\ KeysAscending(analysis.created_dates)
        /\ (FourDigitYears => YearsAscending(analysis.created_dates))

\* C4 witness: the rarer language, the rarer topic and the later year came
\* first in the input, and each of the three mappings has been reordered.
C4_Witness ==
    /\ pc = "returned"
    /\ items = <<OtherRepo, BaseRepo, BaseRepo>>
    /\ analysis.languages = << <<"Python", 2>>, <<"Rust", 1>> >>
    /\ analysis.topics = << <<"nlp", 3>>, <<"llm", 1>> >>
    /\ analysis.created_dates = << <<Y2020, 2>>, <<Y2023, 1>> >>

\* The language of a record is present, not null, and this one
HasLanguage(repo, l) == "language" \in DOMAIN repo /\ repo.language = Some(l)

LanguagesOf(repos) ==
    {repos[k].language[1] :
        k \in {j \in 1..Len(repos) :
                  "language" \in DOMAIN repos[j] /\ repos[j].language # None}}

\* C5: a record whose language, topics or creation timestamp is absent or
\* null never makes the analysis fail: the analysis completes, the record is
\* counted in total_count and in its star bucket, and every record with a
\* non-null language is counted in languages[language].
C5_MissingFieldsSkipped ==
    pc # "call" =>
        /\ pc = "returned"
        /\ analysis.total_count = Len(items)
        /\ SumSeq(DictValues(analysis.stars_distribution)) = Len(items)
        /\ \A l \in LanguagesOf(items) :
              DictGet(analysis.languages, l, 0)
                  = CountItems(LAMBDA r : HasLanguage(r, l))

\* The list a record's topics are iterated from: [] when the key is absent
TopicsOf(repo) == Get(repo, "topics", Some(<<>>))[1]

HasTopic(repo, t) == \E j \in 1..Len(TopicsOf(repo)) : TopicsOf(repo)[j] = t

\* The least number of a non-empty set of numbers
Least(S) == CHOOSE n \in S : \A m \in S : n <= m

\* The index in items of the first record of language l
FirstLanguage(l) == Least({k \in 1..Len(items) : HasLanguage(items[k], l)})

\* The index in items of the first record that lists topic t, and the
\* position of t in that record's list
FirstTopicRecord(t) == Least({k \in 1..Len(items) : HasTopic(items[k], t)})

FirstTopicPosition(t) ==
    LET topics == TopicsOf(items[FirstTopicRecord(t)])
    IN  Least({j \in 1..Len(topics) : topics[j] = t})

\* Topic t appears in the collection before topic u does
TopicAppearsBefore(t, u) ==
    \/ FirstTopicRecord(t) < FirstTopicRecord(u)
    \/ /\ FirstTopicRecord(t) = FirstTopicRecord(u)
       /\ FirstTopicPosition(t) < FirstTopicPosition(u)

\* C11: the sort by count is stable: of two languages of equal count, the
\* one whose first record comes earlier in the collection comes first in the
\* languages mapping; of two topics of equal count, the one that appears
\* first in the collection (by record, then by position in the record's
\* list) comes first in the topics mapping.
C11_StableTieBreak ==
    pc = "returned" =>
        /\ \A m, n \in 1..Len(analysis.languages) :
              (/\ analysis.languages[m][2] = analysis.languages[n][2]
               /\ FirstLanguage(analysis.languages[m][1])
                     < FirstLanguage(analysis.languages[n][1]))
                  => m < n
        /\ \A m, n \in 1..Len(analysis.topics) :
              (/\ analysis.topics[m][2] = analysis.topics[n][2]
               /\ TopicAppearsBefore(analysis.topics[m][1], analysis.topics[n][1]))
                  => m < n

\* C11 witness: three languages tie and keep the order of their records;
\* the topic that appears first is the rarest and has moved behind two
\* topics that tie, which keep their order of appearance.
C11_Witness ==
    /\ pc = "returned"
    /\ items = <<ThirdRepo, OtherRepo, BaseRepo>>
    /\ analysis.languages = << <<"Go", 1>>, <<"Rust", 1>>, <<"Python", 1>> >>
    /\ analysis.topics = << <<"llm", 2>>, <<"nlp", 2>>, <<"rag", 1>> >>

----------------------------------------------------------------------------
(* The visualization tool: paths and the file system *)

\* A path is the sequence of its components; an absolute path starts with "/"
IsAbs(path) == path # <<>> /\ path[1] = "/"

\* os.path.join(a, b): b alone when it is absolute, else b under a
PathJoin(a, b) == IF IsAbs(b) THEN b ELSE a \o b

\* The path with "." dropped and "name/.." resolved, as the file system and
\* a browser resolve it
RECURSIVE NormalizeOnto(_, _)
NormalizeOnto(done, rest) ==
    IF rest = <<>> THEN done
    ELSE IF rest[1] = "." THEN NormalizeOnto(done, Tail(rest))
    ELSE IF rest[1] = ".."
         THEN IF done # <<>> /\ done[Len(done)] \notin {"..", "/"}
              THEN NormalizeOnto(SubSeq(done, 1, Len(done) - 1), Tail(rest))
              ELSE IF done # <<>> /\ done[Len(done)] = "/"
                   THEN NormalizeOnto(done, Tail(rest))
                   ELSE NormalizeOnto(Append(done, ".."), Tail(rest))
    ELSE NormalizeOnto(Append(done, rest[1]), Tail(rest))

Normalize(path) == NormalizeOnto(<<>>, path)

\* The directory that holds the file
Dirname(path) == SubSeq(path, 1, Len(path) - 1)

\* The working directory, the directories above it and the root exist;
\* another directory exists when
\* the file system has it as a directory
IsDir(fs, path) ==
    LET n == Normalize(path)
    IN  \/ n = <<"/">>
        \/ \A k \in 1..Len(n) : n[k] = ".."
        \/ (n \in DOMAIN fs /\ fs[n] = "dir")

\* os.path.exists(path)
Exists(fs, path) == IsDir(fs, path) \/ Normalize(path) \in DOMAIN fs

\* os.makedirs(path): the directory and the missing directories above it
MakeDirs(fs, path) ==
    LET n == Normalize(path)
        made == {SubSeq(n, 1, k) : k \in 1..Len(n)} \ (DOMAIN fs \cup {<<"/">>})
    IN  [q \in DOMAIN fs \cup made |-> IF q \in made THEN "dir" ELSE fs[q]]

\* open(path, 'w') succeeds when the directory of the file exists
CanCreate(fs, path) == IsDir(fs, Dirname(Normalize(path)))

CreateFile(fs, path, kind) == (Normalize(path) :> kind) @@ fs

CHARTS == <<"languages.png", "topics.png", "stars_distribution.png",
            "creation_timeline.png">>

\* The src attributes of the four img elements of the report, in order
IMG_SRC ==
    << <<"visualizations", "languages.png">>,
       <<"visualizations", "topics.png">>,
       <<"visualizations", "stars_distribution.png">>,
       <<"visualizations", "creation_timeline.png">> >>

\* os.path.join(self.output_dir, '<chart>.png')
ChartPath(output_dir, c) == PathJoin(output_dir, <<CHARTS[c]>>)

\* os.path.join(self.output_dir, output_file)
ReportPath(output_dir, output_file) == PathJoin(output_dir, output_file)

ANALYSIS_DEFAULT == <<"llm_literature_repos_analysis.json">>

OutputDirs == { <<"visualizations">>, <<"out", "charts">> }

ReportNames == { <<"report.html">>, <<"sub", "report.html">> }

\* The analysis file when the tool starts: absent, a valid document, or text
\* that is not JSON
AnalysisStates == {"absent", "valid", "malformed"}

InitialDisk(analysisState, dirExists, dir) ==
    LET withTmp == (<<"/", "tmp">> :> "dir")
        withAnalysis == IF analysisState = "absent" THEN withTmp
                        ELSE (ANALYSIS_DEFAULT :> analysisState) @@ withTmp
    IN  IF dirExists THEN MakeDirs(withAnalysis, dir) ELSE withAnalysis

InitViz ==
    /\ SearchIdle
    /\ caller \in {"main", "direct"}
    /\ vpc = IF caller = "main" THEN "main" ELSE "construct"
    /\ HAS_MATPLOTLIB \in BOOLEAN
    /\ vargs \in [analysis : {ANALYSIS_DEFAULT}, output_dir : OutputDirs,
                  report : ReportNames]
    /\ \E analysisState \in AnalysisStates, dirExists \in BOOLEAN :
          disk = InitialDisk(analysisState, dirExists, vargs.output_dir)
    /\ chart = 1
    /\ error = ""
    /\ message = ""


\* main of the visualization tool: without matplotlib it prints an error
\* and returns
VizMain ==
    /\ vpc = "main"
    /\ IF ~HAS_MATPLOTLIB
       THEN message' = "matplotlib is required" /\ vpc' = "exit"
       ELSE message' = message /\ vpc' = "construct"
    /\ UNCHANGED <<caller, vargs, HAS_MATPLOTLIB, disk, chart, error>>
    /\ UNCHANGED <<pc, args, i, all_results, issued, served, outstanding, status,
                   clock, sleeps, results, analysis, files, writes, items>>

\* A mutation of the constructor: a missing analysis file is taken as an
\* empty analysis.
ConstructLenient ==
    /\ vpc = "construct"
    /\ disk' = IF ~Exists(disk, vargs.output_dir)
               THEN MakeDirs(disk, vargs.output_dir) ELSE disk
    /\ vpc' = "report_charts"
    /\ UNCHANGED <<caller, vargs, HAS_MATPLOTLIB, chart, error, message>>
    /\ UNCHANGED <<pc, args, i, all_results, issued, served, outstanding, status,
                   clock, sleeps, results, analysis, files, writes, items>>

\* ResultsVisualizer.__init__: the matplotlib check, the output directory,
\* the load of the analysis; the caller then asks for the report
Construct ==
    /\ vpc = "construct"
    /\ IF ~HAS_MATPLOTLIB
       THEN error' = "ImportError" /\ vpc' = "raised" /\ disk' = disk
       ELSE /\ disk' = IF ~Exists(disk, vargs.output_dir)
                       THEN MakeDirs(disk, vargs.output_dir) ELSE disk
            /\ IF Normalize(vargs.analysis) \notin DOMAIN disk
               THEN error' = "FileNotFoundError" /\ vpc' = "raised"
               ELSE IF disk[Normalize(vargs.analysis)] # "valid"
               THEN error' = "JSONDecodeError" /\ vpc' = "raised"
               ELSE error' = error /\ vpc' = "report_charts"
    /\ UNCHANGED <<caller, vargs, HAS_MATPLOTLIB, chart, message>>
    /\ UNCHANGED <<pc, args, i, all_results, issued, served, outstanding, status,
                   clock, sleeps, results, analysis, files, writes, items>>

\* One of visualize_languages, visualize_topics,
\* visualize_stars_distribution, visualize_creation_timeline, in the order
\* of create_all_visualizations: called by create_html_report, and by main
\* once more after the report
DrawChart ==
    /\ vpc \in {"report_charts", "main_charts"}
    /\ disk' = CreateFile(disk, ChartPath(vargs.output_dir, chart), "png")
    /\ IF chart < Len(CHARTS)
       THEN chart' = chart + 1 /\ vpc' = vpc
       ELSE chart' = 1 /\ vpc' = IF vpc = "report_charts" THEN "write_html" ELSE "exit"
    /\ UNCHANGED <<caller, vargs, HAS_MATPLOTLIB, error, message>>
    /\ UNCHANGED <<pc, args, i, all_results, issued, served, outstanding, status,
                   clock, sleeps, results, analysis, files, writes, items>>

\* create_html_report writes the HTML document and returns its path
WriteReport ==
    /\ vpc = "write_html"
    /\ IF CanCreate(disk, ReportPath(vargs.output_dir, vargs.report))
       THEN /\ disk' = CreateFile(disk, ReportPath(vargs.output_dir, vargs.report),
                                  "html")
            /\ error' = error
            /\ vpc' = IF caller = "main" THEN "main_charts" ELSE "returned"
       ELSE /\ disk' = disk
            /\ error' = "FileNotFoundError"
            /\ vpc' = "raised"
    /\ UNCHANGED <<caller, vargs, HAS_MATPLOTLIB, chart, message>>
    /\ UNCHANGED <<pc, args, i, all_results, issued, served, outstanding, status,
                   clock, sleeps, results, analysis, files, writes, items>>

\* The except clauses of main
HandleError ==
    /\ vpc = "raised"
    /\ caller = "main"
    /\ message' = IF error = "FileNotFoundError" THEN "analysis file not found"
                  ELSE IF error = "JSONDecodeError" THEN "not a valid JSON file"
                  ELSE error
    /\ vpc' = "exit"
    /\ UNCHANGED <<caller, vargs, HAS_MATPLOTLIB, disk, chart, error>>
    /\ UNCHANGED <<pc, args, i, all_results, issued, served, outstanding, status,
                   clock, sleeps, results, analysis, files, writes, items>>

NextViz ==
    \/ VizMain
    \/ Construct
    \/ DrawChart
    \/ WriteReport
    \/ HandleError

SpecViz == InitViz /\ [][NextViz]_vars

----------------------------------------------------------------------------
(* Claims about the visualization tool *)

AnalysisMissing == Normalize(vargs.analysis) \notin DOMAIN disk

\* No image and no HTML document is on the disk
NoOutputFiles == \A path \in DOMAIN disk : disk[path] \notin {"png", "html"}

Constructed == vpc \in {"report_charts", "write_html", "main_charts", "returned"}

\* C8 as stated: constructing ResultsVisualizer with an analysis path that
\* does not exist raises the not-found error and creates no chart file, and
\* main reports it as a message and ends with no image or HTML file written.
C8_MissingInput ==
    (vpc # "idle" /\ AnalysisMissing) =>
        /\ ~Constructed
        /\ NoOutputFiles
        /\ vpc = "raised" => error = "FileNotFoundError"
        /\ vpc = "exit" => message # ""

\* C8 amended: constructing ResultsVisualizer with an analysis path that
\* does not exist never yields a visualizer and creates no chart file; it
\* raises the not-found error when matplotlib is available, and ImportError,
\* before the path is looked at, when it is not.  main ends with a message
\* and with no image or HTML file written; with matplotlib the message is
\* the not-found message.
C8_MissingInputWithMatplotlib ==
    (vpc # "idle" /\ AnalysisMissing) =>
        /\ ~Constructed
        /\ NoOutputFiles
        /\ vpc = "raised" =>
              error = IF HAS_MATPLOTLIB THEN "FileNotFoundError" ELSE "ImportError"
        /\ vpc = "exit" =>
              message = IF HAS_MATPLOTLIB THEN "analysis file not found"
                        ELSE "matplotlib is required"

\* C8 witness: with matplotlib, main found no analysis file, the constructor
\* had created the output directory, and main has printed the not-found
\* message and ended.
C8_Witness ==
    /\ vpc = "exit"
    /\ caller = "main"
    /\ HAS_MATPLOTLIB
    /\ AnalysisMissing
    /\ error = "FileNotFoundError"
    /\ message = "analysis file not found"
    /\ vargs.output_dir = <<"out", "charts">>
    /\ DOMAIN disk = {<<"/", "tmp">>, <<"out">>, <<"out", "charts">>}

\* Path p lies beneath directory d
Beneath(p, d) ==
    LET np == Normalize(p)
        nd == Normalize(d)
    IN  Len(np) > Len(nd) /\ SubSeq(np, 1, Len(nd)) = nd

ReportWritten ==
    /\ error = ""
    /\ vpc \in {"main_charts", "returned", "exit"}
    /\ HAS_MATPLOTLIB

\* C9: for every output directory and report filename, create_html_report
\* writes the four images and the HTML document beneath the output
\* directory, and each of the four image references of the document,
\* resolved relative to the document's location, names the file the
\* corresponding chart operation wrote.
C9_ReportEmbedsCharts ==
    ReportWritten =>
        LET report == ReportPath(vargs.output_dir, vargs.report)
        IN  /\ Normalize(report) \in DOMAIN disk
            /\ disk[Normalize(report)] = "html"
            /\ Beneath(report, vargs.output_dir)
            /\ \A c \in 1..Len(CHARTS) :
                  LET image == ChartPath(vargs.output_dir, c)
                  IN  /\ Normalize(image) \in DOMAIN disk
                      /\ disk[Normalize(image)] = "png"
                      /\ Beneath(image, vargs.output_dir)
                      /\ Normalize(Dirname(Normalize(report)) \o IMG_SRC[c])
                            = Normalize(image)

====
